---- MODULE Spec2Model ----
(***************************************************************************)
(* prep_dfci_maf.py: the genomics and clinical loaders and the per-panel   *)
(* merge loop of main(), as a state machine.  A table (pandas DataFrame)   *)
(* is a record [columns, rows]: the ordered column names and the rows,     *)
(* each row a function from column name to cell (a string).                *)
(***************************************************************************)
EXTENDS Integers, Sequences, FiniteSets, TLC

\* ------------------------------------------------------------------------
\* Bounds of the model
MaxGenomicsRows == 3
MaxClinicalRows == 2
MaxRequested    == 2

\* ------------------------------------------------------------------------
\* Constants of the script
MAF_columns ==
    << "Hugo_Symbol", "Entrez_Gene_Id", "Center", "NCBI_Build",
       "Chromosome", "Start_Position", "End_Position", "Strand",
       "Variant_Classification", "Variant_Type", "Reference_Allele",
       "Tumor_Seq_Allele1", "Tumor_Seq_Allele2", "dbSNP_RS",
       "dbSNP_Val_Status", "Tumor_Sample_Barcode", "Matched_Norm_Sample_Barcode",
       "Match_Norm_Seq_Allele1", "Match_Norm_Seq_Allele2",
       "Tumor_Validation_Allele1", "Tumor_Validation_Allele2",
       "Match_Norm_Validation_Allele1", "Match_Norm_Validation_Allele2",
       "Verification_Status", "Validation_Status", "Mutation_Status",
       "Sequencing_Phase", "Sequence_Source", "Validation_Method",
       "Score", "BAM_File", "Sequencer", "Tumor_Sample_UUID",
       "Matched_Norm_Sample_UUID" >>

PANEL_VERSIONS == {"1", "2", "3"}

keep_colnames ==
    << "Tumor_Sample_Barcode", "Chromosome", "Start_Position",
       "End_Position", "Strand", "Reference_Allele",
       "Tumor_Seq_Allele1", "Tumor_Seq_Allele2", "NCBI_Build" >>

required_columns == << "Tumor_Sample_Barcode", "Panel_Version", "Exclude_Sample" >>

\* A missing cell (pandas NaN).
NaN == "<NaN>"

\* ------------------------------------------------------------------------
\* Helpers on sequences and tables
Range(s) == { s[k] : k \in 1..Len(s) }

SeqsUpTo(S, lo, hi) == UNION { [1..n -> S] : n \in lo..hi }

EmptyTable == [columns |-> <<>>, rows |-> <<>>]

\* df[col].unique(), as a set
UniqueValues(df, col) == { df.rows[k][col] : k \in 1..Len(df.rows) }

\* df.isnull().values.any()
AnyNull(df) ==
    \E k \in 1..Len(df.rows) : \E c \in Range(df.columns) : df.rows[k][c] = NaN

\* df[colnames]: keep the named columns, in the order given
Project(df, colnames) ==
    [columns |-> colnames,
     rows    |-> [k \in 1..Len(df.rows) |->
                    [c \in Range(colnames) |-> df.rows[k][c]]]]

\* df.duplicated(subset=subset).any()
AnyDuplicated(df, subset) ==
    \E j, k \in 1..Len(df.rows) :
        /\ j < k
        /\ \A c \in Range(subset) : df.rows[j][c] = df.rows[k][c]

\* df[df[col] == value]
FilterEquals(df, col, value) ==
    [columns |-> df.columns,
     rows    |-> SelectSeq(df.rows, LAMBDA r : r[col] = value)]

\* df[df[col].isin(values)]
FilterIsin(df, col, values) ==
    [columns |-> df.columns,
     rows    |-> SelectSeq(df.rows, LAMBDA r : r[col] \in values)]

RECURSIVE Flatten(_)
Flatten(ss) == IF ss = <<>> THEN <<>> ELSE Head(ss) \o Flatten(Tail(ss))

\* ------------------------------------------------------------------------
\* Input domains: the files and the command line the script may be given
Barcodes     == {"S1", "S2"}
Destinations == {"a.maf", "b.maf"}
Requestable  == {"1", "2"}

GenomicsRow(barcode, chromosome, start, allele1, strand, build, end) ==
    [Tumor_Sample_Barcode |-> barcode, Chromosome |-> chromosome,
     Start_Position |-> start, End_Position |-> end, Strand |-> strand,
     Reference_Allele |-> "A", Tumor_Seq_Allele1 |-> allele1,
     Tumor_Seq_Allele2 |-> "T", NCBI_Build |-> build]

\* Rows the genomics loader accepts: for S1 a call, the same call on another
\* chromosome, a call at another position and a call whose first tumor allele
\* is not the reference allele; for S2 one call.
GoodGenomicsRows ==
    { GenomicsRow("S1", "1", "10", "A", "+", "GRCh37", "10"),
      GenomicsRow("S1", "2", "10", "A", "+", "GRCh37", "10"),
      GenomicsRow("S1", "1", "20", "A", "+", "GRCh37", "10"),
      GenomicsRow("S1", "1", "10", "C", "+", "GRCh37", "10"),
      GenomicsRow("S2", "1", "10", "A", "+", "GRCh37", "10") }

\* Rows the genomics loader rejects: reverse strand, another build, a missing cell.
BadGenomicsRows ==
    { GenomicsRow("S1", "1", "10", "A", "-", "GRCh37", "10"),
      GenomicsRow("S1", "1", "10", "A", "+", "GRCh38", "10"),
      GenomicsRow("S1", "1", "10", "A", "+", "GRCh37", NaN) }

GenomicsFiles ==
    { [columns |-> keep_colnames, rows |-> rs] :
        rs \in SeqsUpTo(GoodGenomicsRows \cup BadGenomicsRows, 0, MaxGenomicsRows) }
    \cup { [columns |-> SelectSeq(keep_colnames, LAMBDA c : c # "Strand"),
            rows    |-> <<>>] }

ClinicalRow(barcode, version, exclude) ==
    [Tumor_Sample_Barcode |-> barcode, Panel_Version |-> version,
     Exclude_Sample |-> exclude]

GoodClinicalRows ==
    { ClinicalRow(b, v, e) : b \in Barcodes, v \in Requestable, e \in {"True", "False"} }

\* Rows the clinical loader rejects: unknown panel, flag in another case, missing cell.
BadClinicalRows ==
    { ClinicalRow("S1", "4", "False"),
      ClinicalRow("S1", "1", "false"),
      ClinicalRow("S1", NaN, "False") }

ClinicalFiles ==
    { [columns |-> required_columns, rows |-> rs] :
        rs \in SeqsUpTo(GoodClinicalRows \cup BadClinicalRows, 0, MaxClinicalRows) }
    \cup { [columns |-> SelectSeq(required_columns, LAMBDA c : c # "Exclude_Sample"),
            rows    |-> <<>>] }

\* argparse: --panel_versions and --out_mafs are both nargs='+' (one or more
\* values each); nothing relates the two counts.
Options ==
    { [panel_versions |-> pv, out_mafs |-> om] :
        pv \in SeqsUpTo(Requestable, 1, MaxRequested),
        om \in SeqsUpTo(Destinations, 1, MaxRequested) }

\* ------------------------------------------------------------------------
\* The loaders.  Each returns the name of the statement that raised ("none"
\* when the table is returned) and the table.
Loaded(df)  == [failed |-> "none", df |-> df]
Raised(why) == [failed |-> why, df |-> EmptyTable]

import_dfci_genomics(infile) ==
    IF ~(Range(keep_colnames) \subseteq Range(infile.columns))
      THEN Raised("genomics_columns")
    ELSE LET df == Project(infile, keep_colnames) IN
      IF AnyNull(df) THEN Raised("genomics_null")
      ELSE IF UniqueValues(df, "Strand") # {"+"} THEN Raised("genomics_strand")
      ELSE IF UniqueValues(df, "NCBI_Build") # {"GRCh37"} THEN Raised("genomics_build")
      ELSE Loaded(df)

NoDuplicateBarcodesUnchecked(df) == TRUE

\* assert not df.duplicated(subset=['Tumor_Sample_Barcode']).any()
NoDuplicateBarcodes(df) == ~AnyDuplicated(df, << "Tumor_Sample_Barcode" >>)

import_prepped_clinical(infile) ==
    IF ~(Range(required_columns) \subseteq Range(infile.columns))
      THEN Raised("clinical_columns")
    ELSE LET df == Project(infile, required_columns) IN
      IF AnyNull(df) THEN Raised("clinical_null")
      ELSE IF ~NoDuplicateBarcodes(df) THEN Raised("clinical_duplicates")
      ELSE IF ~(UniqueValues(df, "Panel_Version") \subseteq PANEL_VERSIONS)
        THEN Raised("clinical_panel")
      ELSE IF ~(UniqueValues(df, "Exclude_Sample") \subseteq {"True", "False"})
        THEN Raised("clinical_exclude")
      ELSE Loaded(df)

\* ------------------------------------------------------------------------
\* The steps of main()

SamplesSubsetReversed(genomics, clinical) ==
    UniqueValues(clinical, "Tumor_Sample_Barcode")
        \subseteq UniqueValues(genomics, "Tumor_Sample_Barcode")

\* set(genomics_df[barcode].unique()) <= set(clinical_df[barcode].unique())
SamplesSubset(genomics, clinical) ==
    UniqueValues(genomics, "Tumor_Sample_Barcode")
        \subseteq UniqueValues(clinical, "Tumor_Sample_Barcode")

FilterExcludeKeepsAll(df) == df

\* filtered_clinical_df[filtered_clinical_df['Exclude_Sample'] == 'False']
FilterExclude(df) == FilterEquals(df, "Exclude_Sample", "False")

\* pd.merge(left, right, how="inner", on="Tumor_Sample_Barcode", sort=False,
\*          indicator='indicator_column'): one row per pair of a left row and a
\* right row with the same key, in the order of the left rows.
Merge(left, right) ==
    LET key        == "Tumor_Sample_Barcode"
        rightOnly  == SelectSeq(right.columns, LAMBDA c : c # key)
        Pair(l, r) == [c \in Range(left.columns) \cup Range(rightOnly)
                              \cup {"indicator_column"} |->
                         IF c \in Range(left.columns) THEN l[c]
                         ELSE IF c = "indicator_column" THEN "both"
                         ELSE r[c]]
        Matches(l) == LET rs == SelectSeq(right.rows, LAMBDA r : r[key] = l[key])
                      IN  [j \in 1..Len(rs) |-> Pair(l, rs[j])]
    IN  [columns |-> left.columns \o rightOnly \o << "indicator_column" >>,
         rows    |-> Flatten([i \in 1..Len(left.rows) |-> Matches(left.rows[i])])]

\* out_df[colname] = value
SetColumn(df, colname, value) ==
    [columns |-> IF colname \in Range(df.columns) THEN df.columns
                 ELSE Append(df.columns, colname),
     rows    |-> [k \in 1..Len(df.rows) |->
                    [c \in Range(df.columns) \cup {colname} |->
                        IF c = colname THEN value ELSE df.rows[k][c]]]]

\* for colname in MAF_columns: if colname not in existing_columns: out_df[colname] = ''
AddMissingColumns(df) ==
    LET existing_columns == Range(df.columns)
        missing == SelectSeq(MAF_columns, LAMBDA c : c \notin existing_columns)
    IN  [columns |-> df.columns \o missing,
         rows    |-> [k \in 1..Len(df.rows) |->
                        [c \in existing_columns \cup Range(missing) |->
                            IF c \in existing_columns THEN df.rows[k][c] ELSE ""]]]

ReorderKeepsAll(df) == df

\* out_df = out_df[MAF_columns]
Reorder(df) == Project(df, MAF_columns)

DuplicateSubsetWithChromosome ==
    << "Tumor_Sample_Barcode", "Chromosome", "Start_Position", "End_Position",
       "Reference_Allele", "Tumor_Seq_Allele2" >>

DuplicateSubsetWithoutBarcode ==
    << "Start_Position", "End_Position", "Reference_Allele", "Tumor_Seq_Allele2" >>

\* the subset= of out_df.duplicated(...)
DuplicateSubset ==
    << "Tumor_Sample_Barcode", "Start_Position", "End_Position",
       "Reference_Allele", "Tumor_Seq_Allele2" >>

\* The rows joined for the panel version: filter by version, filter out the
\* excluded samples, merge.
Joined(genomics, clinical, panel_version) ==
    Merge(genomics,
          FilterExclude(FilterEquals(clinical, "Panel_Version", panel_version)))

\* The first assert of the iteration that fails on the joined rows, "none" if
\* all hold.  set(out_df['indicator_column'].unique()) is the empty set when
\* the join has no rows, and the empty set is not set(['both']).
FailedCheck(out_df) ==
    IF UniqueValues(out_df, "indicator_column") # {"both"} THEN "indicator"
    ELSE IF AnyDuplicated(out_df, DuplicateSubset) THEN "duplicates"
    ELSE IF \E k \in 1..Len(out_df.rows) :
              out_df.rows[k]["Tumor_Seq_Allele1"] # out_df.rows[k]["Reference_Allele"]
      THEN "allele"
    ELSE IF ~(Len(out_df.rows) > 0) THEN "nonempty"
    ELSE "none"

\* Center, the missing MAF columns, the final column selection
Reconciled(out_df) == Reorder(AddMissingColumns(SetColumn(out_df, "Center", "DFCI")))

\* fout.write("#version 2.4\n"); out_df.to_csv(fout, sep="\t", na_rep='', index=False)
Serialized(df) ==
    [version |-> "#version 2.4",
     header  |-> df.columns,
     rows    |-> [k \in 1..Len(df.rows) |->
                    [c \in Range(df.columns) |->
                        IF df.rows[k][c] = NaN THEN "" ELSE df.rows[k][c]]]]

NoFile == [version |-> "", header |-> <<>>, rows |-> <<>>]

\* ------------------------------------------------------------------------
\* State
VARIABLES
    options,      \* the parsed command line: panel_versions, out_mafs
    pc,           \* the statement main() is at
    failed,       \* the statement that raised, "none" while none has
    genomics_df,  \* main's genomics_df
    clinical_df,  \* main's clinical_df (rebound once, to the requested panels)
    in_clinical,  \* the table import_prepped_clinical returned
    index,        \* the loop variable, 0-based
    files,        \* the file system: destination -> content
    written       \* the writes made so far, in order

vars == << options, pc, failed, genomics_df, clinical_df, in_clinical, index,
           files, written >>

Init ==
    /\ options \in Options
    /\ pc = "import_genomics"
    /\ failed = "none"
    /\ genomics_df = EmptyTable
    /\ clinical_df = EmptyTable
    /\ in_clinical = EmptyTable
    /\ index = 0
    /\ files = [d \in Destinations |-> NoFile]
    /\ written = <<>>

\* genomics_df = import_dfci_genomics(options.in_genomics)
ImportGenomics ==
    /\ pc = "import_genomics"
    /\ \E infile \in GenomicsFiles :
         LET r == import_dfci_genomics(infile) IN
           /\ genomics_df' = r.df
           /\ failed' = r.failed
           /\ pc' = IF r.failed = "none" THEN "import_clinical" ELSE "aborted"
    /\ UNCHANGED << options, clinical_df, in_clinical, index, files, written >>

\* clinical_df = import_prepped_clinical(options.in_clinical)
ImportClinical ==
    /\ pc = "import_clinical"
    /\ \E infile \in ClinicalFiles :
         LET r == import_prepped_clinical(infile) IN
           /\ clinical_df' = r.df
           /\ in_clinical' = r.df
           /\ failed' = r.failed
           /\ pc' = IF r.failed = "none" THEN "check_samples" ELSE "aborted"
    /\ UNCHANGED << options, genomics_df, index, files, written >>

\* The assert on the samples, then the filter for the requested panels.
CheckSamples ==
    /\ pc = "check_samples"
    /\ IF SamplesSubset(genomics_df, clinical_df)
         THEN /\ clinical_df' = FilterIsin(clinical_df, "Panel_Version",
                                           Range(options.panel_versions))
              /\ pc' = "loop"
              /\ UNCHANGED failed
         ELSE /\ pc' = "aborted"
              /\ failed' = "samples"
              /\ UNCHANGED clinical_df
    /\ UNCHANGED << options, genomics_df, in_clinical, index, files, written >>

\* Cohort, with a failed check reported and the loop going on to the next version.
CohortContinuing ==
    /\ pc = "loop"
    /\ index < Len(options.panel_versions)
    /\ LET panel_version == options.panel_versions[index + 1] IN
       IF index + 1 > Len(options.out_mafs)
         THEN /\ pc' = "aborted"
              /\ failed' = "out_mafs_index"
              /\ UNCHANGED << clinical_df, index, files, written >>
       ELSE
         LET out_maf == options.out_mafs[index + 1]
             out_df  == Joined(genomics_df, clinical_df, panel_version)
             why     == FailedCheck(out_df)
         IN  IF why # "none"
               THEN /\ failed' = why
                    /\ index' = index + 1
                    /\ UNCHANGED << pc, clinical_df, files, written >>
               ELSE LET content == Serialized(Reconciled(out_df)) IN
                    /\ files' = [files EXCEPT ![out_maf] = content]
                    /\ written' = Append(written,
                                         [index |-> index, panel_version |-> panel_version,
                                          out_maf |-> out_maf, content |-> content])
                    /\ index' = index + 1
                    /\ UNCHANGED clinical_df
                    /\ UNCHANGED << pc, failed >>
    /\ UNCHANGED << options, genomics_df, in_clinical >>

\* Cohort, with the version filter assigned to clinical_df itself.
CohortRebinding ==
    /\ pc = "loop"
    /\ index < Len(options.panel_versions)
    /\ LET panel_version == options.panel_versions[index + 1] IN
       IF index + 1 > Len(options.out_mafs)
         THEN /\ pc' = "aborted"
              /\ failed' = "out_mafs_index"
              /\ UNCHANGED << clinical_df, index, files, written >>
       ELSE
         LET out_maf == options.out_mafs[index + 1]
             out_df  == Joined(genomics_df, clinical_df, panel_version)
             why     == FailedCheck(out_df)
         IN  IF why # "none"
               THEN /\ pc' = "aborted"
                    /\ failed' = why
                    /\ UNCHANGED << clinical_df, index, files, written >>
               ELSE LET content == Serialized(Reconciled(out_df)) IN
                    /\ files' = [files EXCEPT ![out_maf] = content]
                    /\ written' = Append(written,
                                         [index |-> index, panel_version |-> panel_version,
                                          out_maf |-> out_maf, content |-> content])
                    /\ index' = index + 1
                    /\ clinical_df' = FilterEquals(clinical_df, "Panel_Version", panel_version)
                    /\ UNCHANGED << pc, failed >>
    /\ UNCHANGED << options, genomics_df, in_clinical >>

\* One iteration of the loop over options.panel_versions, up to the write
\* (the summary it prints afterwards changes nothing).
Cohort ==
    /\ pc = "loop"
    /\ index < Len(options.panel_versions)
    /\ LET panel_version == options.panel_versions[index + 1] IN
       IF index + 1 > Len(options.out_mafs)
         THEN /\ pc' = "aborted"
              /\ failed' = "out_mafs_index"
              /\ UNCHANGED << clinical_df, index, files, written >>
       ELSE
         LET out_maf == options.out_mafs[index + 1]
             out_df  == Joined(genomics_df, clinical_df, panel_version)
             why     == FailedCheck(out_df)
         IN  IF why # "none"
               THEN /\ pc' = "aborted"
                    /\ failed' = why
                    /\ UNCHANGED << clinical_df, index, files, written >>
               ELSE LET content == Serialized(Reconciled(out_df)) IN
                    /\ files' = [files EXCEPT ![out_maf] = content]
                    /\ written' = Append(written,
                                         [index |-> index, panel_version |-> panel_version,
                                          out_maf |-> out_maf, content |-> content])
                    /\ index' = index + 1
                    /\ UNCHANGED clinical_df
                    /\ UNCHANGED << pc, failed >>
    /\ UNCHANGED << options, genomics_df, in_clinical >>

\* The loop is exhausted: main returns and the script exits with 0.
Finish ==
    /\ pc = "loop"
    /\ index >= Len(options.panel_versions)
    /\ pc' = "done"
    /\ UNCHANGED << options, failed, genomics_df, clinical_df, in_clinical, index,
                    files, written >>

Next == ImportGenomics \/ ImportClinical \/ CheckSamples \/ Cohort \/ Finish

Spec == Init /\ [][Next]_vars

\* ------------------------------------------------------------------------
\* Vocabulary of the properties, stated on the inputs as loaded

LoaderFailures ==
    { "genomics_columns", "genomics_null", "genomics_strand", "genomics_build",
      "clinical_columns", "clinical_null", "clinical_duplicates", "clinical_panel",
      "clinical_exclude" }

\* Both loaders have returned.
BothLoaded == pc \notin {"import_genomics", "import_clinical"} /\ failed \notin LoaderFailures

\* A post-join check failed in the iteration at position index.
JoinCheckFailed == pc = "aborted" /\ failed \in {"indicator", "duplicates", "allele", "nonempty"}

\* The barcodes of the clinical input rows of panel version v that are not excluded.
Eligible(v) ==
    { in_clinical.rows[k]["Tumor_Sample_Barcode"] :
        k \in { n \in 1..Len(in_clinical.rows) :
                  /\ in_clinical.rows[n]["Panel_Version"] = v
                  /\ in_clinical.rows[n]["Exclude_Sample"] = "False" } }

\* The positions of the genomics rows of those samples.
EligibleRows(v) ==
    { i \in 1..Len(genomics_df.rows) :
        genomics_df.rows[i]["Tumor_Sample_Barcode"] \in Eligible(v) }

\* Two genomics rows are the same call of the same sample, whatever the chromosome.
SameCall(i, j) ==
    \A c \in { "Tumor_Sample_Barcode", "Start_Position", "End_Position",
               "Reference_Allele", "Tumor_Seq_Allele2" } :
        genomics_df.rows[i][c] = genomics_df.rows[j][c]

NoFilesWritten == written = <<>> /\ \A d \in Destinations : files[d] = NoFile

\* ------------------------------------------------------------------------
\* C1 (as amended): every output written has as its header exactly the
\* MAF_columns list, in its order, and that list has 34 names (not 33); each
\* data row has exactly those fields.
C1_HeaderIsThe34MafColumns ==
    \A n \in 1..Len(written) :
        LET content == written[n].content IN
        /\ content.header = MAF_columns
        /\ Len(content.header) = 34
        /\ Cardinality(Range(content.header)) = 34
        /\ \A k \in 1..Len(content.rows) : DOMAIN content.rows[k] = Range(MAF_columns)
        /\ files[written[n].out_maf].header = MAF_columns

\* C1 as stated: the header of every output written has 33 names, in the
\* order of MAF_columns.
C1_HeaderHas33Names ==
    \A n \in 1..Len(written) :
        /\ written[n].content.header = MAF_columns
        /\ Len(written[n].content.header) = 33

C1_Witness ==
    /\ pc = "done"
    /\ Len(written) = 2
    /\ Len(written[2].content.rows) = 2

\* C2: every row of the output written for panel version v carries the
\* barcode of a clinical input row with Panel_Version v and Exclude_Sample
\* "False", and of no clinical row with another version or with "True".
C2_OutputSamplesAreEligible ==
    \A n \in 1..Len(written) :
        \A k \in 1..Len(written[n].content.rows) :
            LET barcode == written[n].content.rows[k]["Tumor_Sample_Barcode"] IN
            /\ \E c \in 1..Len(in_clinical.rows) :
                 /\ in_clinical.rows[c]["Tumor_Sample_Barcode"] = barcode
                 /\ in_clinical.rows[c]["Panel_Version"] = written[n].panel_version
                 /\ in_clinical.rows[c]["Exclude_Sample"] = "False"
            /\ \A c \in 1..Len(in_clinical.rows) :
                 in_clinical.rows[c]["Tumor_Sample_Barcode"] = barcode
                   => /\ in_clinical.rows[c]["Panel_Version"] = written[n].panel_version
                      /\ in_clinical.rows[c]["Exclude_Sample"] # "True"

\* An output was written although the genomics table has rows of an excluded
\* sample of the same panel version.
C2_Witness ==
    /\ Len(written) >= 1
    /\ \E c \in 1..Len(in_clinical.rows), g \in 1..Len(genomics_df.rows) :
         /\ in_clinical.rows[c]["Exclude_Sample"] = "True"
         /\ in_clinical.rows[c]["Panel_Version"] = written[1].panel_version
         /\ in_clinical.rows[c]["Tumor_Sample_Barcode"]
              = genomics_df.rows[g]["Tumor_Sample_Barcode"]

\* C3: when a genomics row has a barcode absent from the validated clinical
\* table, no output is ever written and the run gets no further than the
\* assert before the loop.
C3_UnknownSampleAbortsBeforeAnyOutput ==
    ( /\ BothLoaded
      /\ \E g \in 1..Len(genomics_df.rows) :
           \A c \in 1..Len(in_clinical.rows) :
             in_clinical.rows[c]["Tumor_Sample_Barcode"]
               # genomics_df.rows[g]["Tumor_Sample_Barcode"] )
    => /\ NoFilesWritten
       /\ index = 0
       /\ pc \in {"check_samples", "aborted"}
       /\ pc = "aborted" => failed = "samples"

\* The run aborted on the assert although another genomics row is of a
\* sample that is eligible for the first requested version.
C3_Witness ==
    /\ pc = "aborted"
    /\ failed = "samples"
    /\ EligibleRows(options.panel_versions[1]) # {}

\* C4 as stated: when the requested version has no joined row, the check that
\* fails is the non-empty post-condition.
C4_EmptyJoinFailsNonEmptyCheck ==
    ( /\ JoinCheckFailed
      /\ EligibleRows(options.panel_versions[index + 1]) = {} )
    => failed = "nonempty"

\* The content the file system holds at destination d according to the
\* writes made so far: that of the last write to d, no file if there is none.
LastWritten(d) ==
    LET to == { n \in 1..Len(written) : written[n].out_maf = d } IN
    IF to = {} THEN NoFile
    ELSE written[CHOOSE n \in to : \A m \in to : m <= n].content

\* In every state: the writes are those of the positions before index, in the
\* order requested and each to the destination of its position; the file
\* system holds what was last written; a failure leaves the run aborted.
C5_InOrder ==
    /\ Len(written) = index
    /\ \A n \in 1..Len(written) :
         /\ written[n].index = n - 1
         /\ written[n].panel_version = options.panel_versions[n]
         /\ written[n].out_maf = options.out_mafs[n]
    /\ \A d \in Destinations : files[d] = LastWritten(d)
    /\ failed # "none" => pc = "aborted"

\* Every step starts where nothing has failed and at most appends one write.
C5_StepStopsAtFailure ==
    /\ failed = "none"
    /\ \/ written' = written /\ files' = files
       \/ /\ Len(written') = Len(written) + 1
          /\ SubSeq(written', 1, Len(written)) = written
          /\ failed' = "none"

\* C5: the versions are processed in the order requested, one write per
\* position; when a check fails at position i nothing is written for i or any
\* later position, the files written before stay as written, and no step
\* follows the failure.
C5_FailureStopsTheRun == []C5_InOrder /\ [][C5_StepStopsAtFailure]_vars

\* A check failed at the second position: the first output is on disk.
C5_Witness ==
    /\ JoinCheckFailed
    /\ index = 1
    /\ Len(written) = 1
    /\ files[written[1].out_maf] = written[1].content
    /\ written[1].content # NoFile

\* The file content for panel version v as a function of the two loaded
\* tables and v alone: the genomics rows of the eligible samples, in the
\* order of the genomics table, under the MAF columns.
ContentFor(v) ==
    LET kept == SelectSeq(genomics_df.rows,
                          LAMBDA g : g["Tumor_Sample_Barcode"] \in Eligible(v))
    IN  [version |-> "#version 2.4",
         header  |-> MAF_columns,
         rows    |-> [k \in 1..Len(kept) |->
                        [c \in Range(MAF_columns) |->
                            IF c = "Center" THEN "DFCI"
                            ELSE IF c \in Range(keep_colnames) THEN kept[k][c]
                            ELSE ""]]]

C6_ContentDependsOnTablesAndVersion ==
    \A n \in 1..Len(written) : written[n].content = ContentFor(written[n].panel_version)

C6_LoopLeavesTablesAlone ==
    pc = "loop" => /\ genomics_df' = genomics_df
                   /\ clinical_df' = clinical_df
                   /\ in_clinical' = in_clinical

\* C6: what is written for a version is determined by the two loaded tables
\* and that version alone, whatever else is requested and in whatever order,
\* and no iteration of the loop changes genomics_df or clinical_df.
C6_CohortsAreIndependent ==
    []C6_ContentDependsOnTablesAndVersion /\ [][C6_LoopLeavesTablesAlone]_vars

\* Two different versions were written in one run, the second with rows.
C6_Witness ==
    /\ Len(written) = 2
    /\ written[1].panel_version # written[2].panel_version
    /\ written[1].content # written[2].content

\* C7 as stated: a request whose two lists differ in length produces no output.
C7_UnequalCountsProduceNoOutput ==
    Len(options.panel_versions) # Len(options.out_mafs) => NoFilesWritten

\* C8: no output written has two rows with the same (sample barcode, start,
\* end, reference allele, tumor allele 2), and no output is written for a
\* version whose joined rows contain such a pair.
C8_NoDuplicateCallsWritten ==
    \A n \in 1..Len(written) :
        /\ \A j, k \in 1..Len(written[n].content.rows) :
             ( /\ j # k
               /\ \A c \in { "Tumor_Sample_Barcode", "Start_Position", "End_Position",
                             "Reference_Allele", "Tumor_Seq_Allele2" } :
                    written[n].content.rows[j][c] = written[n].content.rows[k][c] )
             => FALSE
        /\ \A i, j \in EligibleRows(written[n].panel_version) : i # j => ~SameCall(i, j)

\* An output with two calls of one sample was written.
C8_Witness ==
    \E n \in 1..Len(written) :
        \E j, k \in 1..Len(written[n].content.rows) :
            /\ j # k
            /\ written[n].content.rows[j]["Tumor_Sample_Barcode"]
                 = written[n].content.rows[k]["Tumor_Sample_Barcode"]

\* C9: the output for version v has exactly one row per genomics row of an
\* eligible sample of v, and the outputs of two different versions share no
\* sample, hence no genomics row.
C9_JoinNeverMultipliesNorOverlaps ==
    /\ \A n \in 1..Len(written) :
         Len(written[n].content.rows) = Cardinality(EligibleRows(written[n].panel_version))
    /\ \A m, n \in 1..Len(written) :
         written[m].panel_version # written[n].panel_version
           => \A j \in 1..Len(written[m].content.rows), k \in 1..Len(written[n].content.rows) :
                written[m].content.rows[j]["Tumor_Sample_Barcode"]
                  # written[n].content.rows[k]["Tumor_Sample_Barcode"]

\* A run that wrote two versions succeeded, one of them with two rows.
C9_Witness ==
    /\ pc = "done"
    /\ Len(written) = 2
    /\ written[1].panel_version # written[2].panel_version
    /\ Len(written[1].content.rows) + Len(written[2].content.rows) = 3

\* C10: the duplicate check fails exactly when two joined rows of the version
\* at hand are the same call of the same sample, whatever their chromosomes,
\* and the allele check only on a joined row; rows of samples that are
\* excluded or of another version take no part in either.
C10_ChecksSeeOnlyJoinedRowsAndNoChromosome ==
    /\ JoinCheckFailed =>
         LET rows == EligibleRows(options.panel_versions[index + 1])
             dup  == \E i, j \in rows : i # j /\ SameCall(i, j)
         IN  /\ failed = "duplicates" <=> (rows # {} /\ dup)
             /\ failed = "allele" <=>
                  /\ rows # {}
                  /\ ~dup
                  /\ \E i \in rows : genomics_df.rows[i]["Tumor_Seq_Allele1"]
                                       # genomics_df.rows[i]["Reference_Allele"]
    /\ \A n \in 1..Len(written) :
         \A i, j \in EligibleRows(written[n].panel_version) :
             /\ i # j => ~SameCall(i, j)
             /\ genomics_df.rows[i]["Tumor_Seq_Allele1"]
                  = genomics_df.rows[i]["Reference_Allele"]

\* A run succeeded although two genomics rows of a sample that is not joined
\* for any requested version are the same call on different chromosomes.
C10_Witness ==
    /\ pc = "done"
    /\ \E i, j \in 1..Len(genomics_df.rows) :
         /\ i # j
         /\ SameCall(i, j)
         /\ genomics_df.rows[i]["Chromosome"] # genomics_df.rows[j]["Chromosome"]
         /\ \A n \in 1..Len(options.panel_versions) :
              i \notin EligibleRows(options.panel_versions[n])

====
